---- MODULE Spec2Model ----
(***************************************************************************)
(* Model of src/src/helper_func/graph_util.py: the relational algebra over *)
(* edge lists (invert, find_paths, compose, lift) and the graph transform  *)
(* and label utilities.                                                    *)
(*                                                                         *)
(* Python objects live in `heap`, a sequence of dicts; a reference is an   *)
(* index into it.  A dict is a function whose DOMAIN is the set of keys    *)
(* that are present, so `'label' in edge` is "label" \in DOMAIN edge.  An  *)
(* edge dict holds, under "properties", a reference to its properties      *)
(* dict.  A list of edges is a sequence of references.                     *)
(***************************************************************************)
EXTENDS Integers, Sequences, FiniteSets, TLC

VARIABLES heap,      \* the Python objects: sequence of dicts
          l1, l2,    \* arguments: two edge lists (sequences of references)
          newlabel,  \* argument: <<>> is None, <<s>> is the string s
          pc,        \* "ready", "compose" (inside compose's loop), "done"
          op,        \* the operation that was called
          mapping,   \* compose: the lookup built from l2
          result,    \* compose: the insertion-ordered dict (key, value) pairs
          i,         \* compose: position of the next l1 edge
          ret,       \* the returned value
          graph,     \* argument: the raw graph document's node and edge data
          nodes,     \* the node map: id -> reference to the node's data
          edges,     \* the edges map: insertion-ordered (label, edge list) pairs
          labels,    \* argument: a list of labels, or the one label in a list
          edgeArg    \* argument: a reference to an edge, 0 when there is none

vars == <<heap, l1, l2, newlabel, pc, op, mapping, result, i, ret,
          graph, nodes, edges, labels, edgeArg>>

(***************************************************************************)
(* Bounds of the model.                                                    *)
(***************************************************************************)
MaxLen1 == 3
MaxLen2 == 2
MaxNodes == 2
MaxEdges == 3

(***************************************************************************)
(* Python dict primitives.                                                 *)
(***************************************************************************)
EmptyDict == [k \in {} |-> 0]

\* d.get(k, default)
Get(d, k, default) == IF k \in DOMAIN d THEN d[k] ELSE default

\* d[k] = v
Put(d, k, v) == [x \in DOMAIN d \cup {k} |-> IF x = k THEN v ELSE d[x]]

\* Truth value of an optional string: None and "" are falsy.
Truthy(s) == s # <<>> /\ s[1] # ""

\* edge.get('properties', {}).get('weight', 1)
WeightOf(h, edge) ==
    IF "properties" \in DOMAIN edge THEN Get(h[edge["properties"]], "weight", 1) ELSE 1

(***************************************************************************)
(* invert                                                                  *)
(***************************************************************************)
\* As InvertEdge, with the empty string for a missing label.
InvertEdgeNoDefault(edge) ==
    [k \in DOMAIN edge \cup {"source", "target", "label"} |->
        CASE k = "source" -> edge["target"]
          [] k = "target" -> edge["source"]
          [] k = "label"  -> "inv_" \o Get(edge, "label", "")
          [] OTHER        -> edge[k]]

\* {**edge, 'source': edge['target'], 'target': edge['source'],
\*  'label': prefix + edge.get('label', 'edge')}
InvertEdge(edge) ==
    [k \in DOMAIN edge \cup {"source", "target", "label"} |->
        CASE k = "source" -> edge["target"]
          [] k = "target" -> edge["source"]
          [] k = "label"  -> "inv_" \o Get(edge, "label", "edge")
          [] OTHER        -> edge[k]]

\* The list comprehension: one new dict per input edge, in input order.
Invert(h, edgeList) ==
    [heap |-> h \o [j \in 1..Len(edgeList) |-> InvertEdge(h[edgeList[j]])],
     ret  |-> [j \in 1..Len(edgeList) |-> Len(h) + j]]

(***************************************************************************)
(* find_paths                                                              *)
(***************************************************************************)
\* source_mapping after the first n edges of edgeList1
RECURSIVE SourceMapping(_, _, _)
SourceMapping(h, edgeList1, n) ==
    IF n = 0 THEN EmptyDict
    ELSE Put(SourceMapping(h, edgeList1, n - 1),
             h[edgeList1[n]]["target"], h[edgeList1[n]]["source"])

\* A list in place of the set: append raises the multiplicity of x.
ListAppend(s, x) ==
    [y \in DOMAIN s \cup {x} |-> IF y = x THEN Get(s, x, 0) + 1 ELSE s[y]]

\* paths.add(x): a Python set is held as the multiset of its elements, and
\* add leaves the multiplicity of x at one.
SetAdd(s, x) == [y \in DOMAIN s \cup {x} |-> 1]

\* paths after the first n edges of edgeList2
RECURSIVE PathsLoop(_, _, _, _)
PathsLoop(h, source_mapping, edgeList2, n) ==
    IF n = 0 THEN EmptyDict
    ELSE LET edge  == h[edgeList2[n]]
             paths == PathsLoop(h, source_mapping, edgeList2, n - 1)
         IN  IF edge["source"] \in DOMAIN source_mapping
             THEN SetAdd(paths, <<source_mapping[edge["source"]],
                                  edge["source"], edge["target"]>>)
             ELSE paths

FindPaths(h, edgeList1, edgeList2) ==
    PathsLoop(h, SourceMapping(h, edgeList1, Len(edgeList1)), edgeList2, Len(edgeList2))

(***************************************************************************)
(* compose                                                                 *)
(***************************************************************************)
MappingEntry(h, edge) ==
    [target |-> edge["target"],
     label  |-> Get(edge, "label", "edge1"),
     weight |-> WeightOf(h, edge)]

\* First write wins: an entry that is already there is kept.
PutIfAbsent(m, k, v) == IF k \in DOMAIN m THEN m ELSE Put(m, k, v)

\* One entry of the dict comprehension: a later edge with the same source
\* replaces the earlier entry.
MappingPut(m, k, v) == Put(m, k, v)

\* the dict comprehension over the first n edges of l2
RECURSIVE Mapping(_, _, _)
Mapping(h, edgeList, n) ==
    IF n = 0 THEN EmptyDict
    ELSE MappingPut(Mapping(h, edgeList, n - 1),
                    h[edgeList[n]]["source"], MappingEntry(h, h[edgeList[n]]))

\* key in result
HasKey(res, key) == \E j \in 1..Len(res) : res[j].key = key

\* result[key]
Lookup(res, key) == res[CHOOSE j \in 1..Len(res) : res[j].key = key].val

\* newlabel or label + "-" + mappingEntry['label']
NewLabel(nl, label, mappingEntry) ==
    IF Truthy(nl) THEN nl[1] ELSE label \o "-" \o mappingEntry.label

\* The two weights added instead of multiplied.
NewWeightSum(mappingEntry, w1) == mappingEntry.weight + w1

\* newWeight = mappingEntry['weight'] * properties.get('weight', 1)
NewWeight(mappingEntry, w1) == mappingEntry.weight * w1

\* The key taken from the l1 edge alone.
ResultKeyByHop(edge, mappingEntry) == <<edge["source"], edge["target"]>>

\* key = (s1, mappingEntry['target'])
ResultKey(edge, mappingEntry) == <<edge["source"], mappingEntry.target>>

\* As InsertNew, but the new edge keeps the properties dict of the l1 edge
\* (when it has one) and writes the weight into it.
InsertNewShared(st, key, edge, mappingEntry, lbl, newWeight) ==
    IF "properties" \in DOMAIN edge
    THEN [heap   |-> Append([st.heap EXCEPT ![edge["properties"]] =
                                 Put(@, "weight", newWeight)],
                            [source     |-> edge["source"],
                             target     |-> mappingEntry.target,
                             label      |-> lbl,
                             properties |-> edge["properties"]]),
          result |-> Append(st.result, [key |-> key, val |-> Len(st.heap) + 1])]
    ELSE [heap   |-> st.heap \o
                     << [weight |-> newWeight],
                        [source     |-> edge["source"],
                         target     |-> mappingEntry.target,
                         label      |-> lbl,
                         properties |-> Len(st.heap) + 1] >>,
          result |-> Append(st.result, [key |-> key, val |-> Len(st.heap) + 2])]

\* result[key] = {'source': s1, 'target': ..., 'label': ...,
\*                'properties': {'weight': newWeight}}: two new dicts
InsertNew(st, key, edge, mappingEntry, lbl, newWeight) ==
    [heap   |-> st.heap \o
                << [weight |-> newWeight],
                   [source     |-> edge["source"],
                    target     |-> mappingEntry.target,
                    label      |-> lbl,
                    properties |-> Len(st.heap) + 1] >>,
     result |-> Append(st.result, [key |-> key, val |-> Len(st.heap) + 2])]

\* result[key]['properties']['weight'] += newWeight
Accumulate(st, key, newWeight) ==
    LET p == st.heap[Lookup(st.result, key)]["properties"]
    IN  [heap   |-> [st.heap EXCEPT ![p] = [@ EXCEPT !["weight"] = @ + newWeight]],
         result |-> st.result]

\* The body of the loop over l1, for one edge: st is the heap and the result
\* dict so far.
ComposeEdge(st, map, edge, nl) ==
    LET t1    == edge["target"]
        label == Get(edge, "label", "edge2")
        w1    == WeightOf(st.heap, edge)
    IN  IF t1 \notin DOMAIN map THEN st
        ELSE LET mappingEntry == map[t1]
                 newWeight    == NewWeight(mappingEntry, w1)
                 key          == ResultKey(edge, mappingEntry)
             IN  IF ~HasKey(st.result, key)
                 THEN InsertNew(st, key, edge, mappingEntry,
                                NewLabel(nl, label, mappingEntry), newWeight)
                 ELSE Accumulate(st, key, newWeight)

\* the loop over the first n edges of l1
RECURSIVE ComposeLoop(_, _, _, _, _)
ComposeLoop(h, map, edgeList, nl, n) ==
    IF n = 0 THEN [heap |-> h, result |-> <<>>]
    ELSE LET st == ComposeLoop(h, map, edgeList, nl, n - 1)
         IN  ComposeEdge(st, map, st.heap[edgeList[n]], nl)

\* list(result.values())
Values(res) == [j \in 1..Len(res) |-> res[j].val]

Compose(h, edgeList1, edgeList2, nl) ==
    LET st == ComposeLoop(h, Mapping(h, edgeList2, Len(edgeList2)),
                          edgeList1, nl, Len(edgeList1))
    IN  [heap |-> st.heap, ret |-> Values(st.result)]

(***************************************************************************)
(* lift                                                                    *)
(***************************************************************************)
\* As Lift, joining back through rel1 itself instead of its inversion.
LiftNoInvert(h, rel1, rel2, nl) ==
    LET c == Compose(h, rel1, rel2, <<>>)
    IN  Compose(c.heap, c.ret, rel1, nl)

\* compose(compose(rel1, rel2), invert(rel1), newlabel): the arguments are
\* evaluated left to right.
Lift(h, rel1, rel2, nl) ==
    LET c   == Compose(h, rel1, rel2, <<>>)
        inv == Invert(c.heap, rel1)
    IN  Compose(inv.heap, c.ret, inv.ret, nl)
(***************************************************************************)
(* Insertion-ordered dicts (nodes, edges, filtered_data): sequences of     *)
(* (key, val) pairs with distinct keys.                                    *)
(***************************************************************************)
\* d[k] = v, keeping the position of a key that is already there
OPut(d, k, v) ==
    IF HasKey(d, k)
    THEN [j \in 1..Len(d) |-> IF d[j].key = k THEN [key |-> k, val |-> v] ELSE d[j]]
    ELSE Append(d, [key |-> k, val |-> v])

\* x in xs, for a list xs
In(x, xs) == \E j \in 1..Len(xs) : xs[j] = x

(***************************************************************************)
(* transform_graph                                                         *)
(***************************************************************************)
\* the dict comprehension over the first n nodes: id -> the node's data
RECURSIVE NodeMap(_, _, _)
NodeMap(h, nodeList, n) ==
    IF n = 0 THEN <<>>
    ELSE OPut(NodeMap(h, nodeList, n - 1), h[nodeList[n]]["id"], nodeList[n])

\* ''.join(xs)
RECURSIVE JoinNoComma(_)
JoinNoComma(xs) ==
    IF xs = <<>> THEN "" ELSE xs[1] \o JoinNoComma(Tail(xs))

\* ','.join(xs)
RECURSIVE Join(_)
Join(xs) ==
    IF xs = <<>> THEN ""
    ELSE IF Len(xs) = 1 THEN xs[1]
    ELSE xs[1] \o "," \o Join(Tail(xs))

SynthLabelNoComma(xs) == JoinNoComma(xs)

\* label = ','.join(edge['data']['labels'])
SynthLabel(xs) == Join(xs)

\* The body of the loop over the edges, for the edge data at reference r: st
\* is the heap, the edges dict so far and the status ("KeyError" once an
\* edge had neither label nor labels).
TransformEdge(st, r) ==
    IF st.status # "ok" THEN st
    ELSE IF "label" \notin DOMAIN st.heap[r] /\ "labels" \notin DOMAIN st.heap[r]
    THEN [st EXCEPT !.status = "KeyError"]
    ELSE LET label == IF "label" \in DOMAIN st.heap[r] THEN st.heap[r]["label"]
                      ELSE SynthLabel(st.heap[r]["labels"])
             h     == IF "label" \in DOMAIN st.heap[r] THEN st.heap
                      ELSE [st.heap EXCEPT ![r] = Put(@, "label", label)]
             grp   == IF HasKey(st.edges, label) THEN Lookup(st.edges, label) ELSE <<>>
         IN  [heap   |-> h,
              edges  |-> OPut(st.edges, label, Append(grp, r)),
              status |-> "ok"]

\* the loop over the first n edges
RECURSIVE TransformLoop(_, _, _)
TransformLoop(h, edgeList, n) ==
    IF n = 0 THEN [heap |-> h, edges |-> <<>>, status |-> "ok"]
    ELSE TransformEdge(TransformLoop(h, edgeList, n - 1), edgeList[n])

\* transform_graph(graph): g holds the data dicts of graph['elements']
TransformGraph(h, g) ==
    LET st == TransformLoop(h, g.edges, Len(g.edges))
    IN  [heap   |-> st.heap,
         status |-> st.status,
         nodes  |-> NodeMap(h, g.nodes, Len(g.nodes)),
         edges  |-> st.edges]

(***************************************************************************)
(* Label utilities.                                                        *)
(***************************************************************************)
\* nodes.get(id, {}).get('labels', [])
LabelsOrEmpty(h, nodeMap, id) ==
    IF HasKey(nodeMap, id) THEN Get(h[Lookup(nodeMap, id)], "labels", <<>>) ELSE <<>>

\* [(s, t) for s in src_labels for t in tgt_labels]
Product(src_labels, tgt_labels) ==
    [k \in 1..(Len(src_labels) * Len(tgt_labels)) |->
        <<src_labels[((k - 1) \div Len(tgt_labels)) + 1],
          tgt_labels[((k - 1) % Len(tgt_labels)) + 1]>>]

\* get_edge_node_labels(edge, nodes)
GetEdgeNodeLabels(h, e, nodeMap) ==
    [status |-> "ok",
     value  |-> Product(LabelsOrEmpty(h, nodeMap, h[e]["source"]),
                        LabelsOrEmpty(h, nodeMap, h[e]["target"]))]

\* As KeepEdge, with both node lookups made before the test.
KeepEdgeEager(h, nodeMap, e, label) ==
    IF ~HasKey(nodeMap, h[e]["source"]) \/ ~HasKey(nodeMap, h[e]["target"])
    THEN "KeyError"
    ELSE IF /\ In(label, Get(h[Lookup(nodeMap, h[e]["source"])], "labels", <<>>))
            /\ In(label, Get(h[Lookup(nodeMap, h[e]["target"])], "labels", <<>>))
    THEN "keep"
    ELSE "drop"

\* label in nodes[edge['source']].get('labels', []) and
\* label in nodes[edge['target']].get('labels', []):
\* the right operand is evaluated only when the left one is true
KeepEdge(h, nodeMap, e, label) ==
    IF ~HasKey(nodeMap, h[e]["source"]) THEN "KeyError"
    ELSE IF ~In(label, Get(h[Lookup(nodeMap, h[e]["source"])], "labels", <<>>))
    THEN "drop"
    ELSE IF ~HasKey(nodeMap, h[e]["target"]) THEN "KeyError"
    ELSE IF In(label, Get(h[Lookup(nodeMap, h[e]["target"])], "labels", <<>>))
    THEN "keep"
    ELSE "drop"

\* get_edges_with_labels(nodes, edge_list, label): the list comprehension
\* over the first n edges
RECURSIVE GetEdgesWithLabels(_, _, _, _, _)
GetEdgesWithLabels(h, nodeMap, edge_list, label, n) ==
    IF n = 0 THEN [status |-> "ok", value |-> <<>>]
    ELSE LET st == GetEdgesWithLabels(h, nodeMap, edge_list, label, n - 1)
             k  == KeepEdge(h, nodeMap, edge_list[n], label)
         IN  IF st.status # "ok" THEN st
             ELSE IF k = "KeyError" THEN [status |-> "KeyError", value |-> <<>>]
             ELSE IF k = "keep" THEN [st EXCEPT !.value = Append(@, edge_list[n])]
             ELSE st

\* all(...) in place of any(...)
AllIn(xs, ys) == \A j \in 1..Len(xs) : In(xs[j], ys)

\* any(label in labels for label in object['labels'])
AnyIn(xs, ys) == \E j \in 1..Len(xs) : In(xs[j], ys)

\* filter_objects_by_labels(data, labels): the loop over the first n items
RECURSIVE FilterObjectsByLabels(_, _, _, _)
FilterObjectsByLabels(h, data, lbls, n) ==
    IF n = 0 THEN [status |-> "ok", value |-> <<>>]
    ELSE LET st == FilterObjectsByLabels(h, data, lbls, n - 1)
         IN  IF st.status # "ok" THEN st
             ELSE IF "labels" \notin DOMAIN h[data[n].val]
             THEN [status |-> "KeyError", value |-> <<>>]
             ELSE IF AnyIn(h[data[n].val]["labels"], lbls)
             THEN [st EXCEPT !.value = OPut(@, data[n].key, data[n].val)]
             ELSE st

(***************************************************************************)
(* The calls of the relational algebra, on edge lists drawn from small     *)
(* pools.  An edge of a pool is its dict e and, in p, its properties dict  *)
(* when it has one.                                                        *)
(***************************************************************************)
EdgePool1 ==
    { [e |-> [source |-> 1, target |-> 1, label |-> "r"], p |-> <<[weight |-> 2]>>],
      [e |-> [source |-> 1, target |-> 2],                p |-> <<>>],
      [e |-> [source |-> 2, target |-> 1, label |-> "s"], p |-> <<EmptyDict>>],
      [e |-> [source |-> 2, target |-> 2, label |-> ""],  p |-> <<[weight |-> 0]>>] }

EdgePool2 ==
    { [e |-> [source |-> 1, target |-> 1, label |-> "p"], p |-> <<[weight |-> 3]>>],
      [e |-> [source |-> 1, target |-> 2],                p |-> <<>>],
      [e |-> [source |-> 2, target |-> 1, label |-> "q"], p |-> <<[weight |-> 2]>>] }

NewLabels == { <<>>, <<"">>, <<"n">> }

BoundedSeq(S, n) == UNION { [1..k -> S] : k \in 0..n }

\* The objects of a list of pool edges, allocated in list order.
RECURSIVE Load(_, _)
Load(st, templates) ==
    IF templates = <<>> THEN st
    ELSE LET t == Head(templates)
             n == Len(st.heap)
         IN  Load(IF t.p = <<>>
                  THEN [heap |-> Append(st.heap, t.e), refs |-> Append(st.refs, n + 1)]
                  ELSE [heap |-> st.heap \o <<t.p[1], Put(t.e, "properties", n + 1)>>,
                        refs |-> Append(st.refs, n + 2)],
                  Tail(templates))

NoGraph == /\ graph = [nodes |-> <<>>, edges |-> <<>>]
           /\ nodes = EmptyDict
           /\ edges = <<>>
           /\ labels = <<>>
           /\ edgeArg = 0

Init ==
    \E a \in BoundedSeq(EdgePool1, MaxLen1), b \in BoundedSeq(EdgePool2, MaxLen2),
       nl \in NewLabels :
        LET s1 == Load([heap |-> <<>>, refs |-> <<>>], a)
            s2 == Load([heap |-> s1.heap, refs |-> <<>>], b)
        IN  /\ heap = s2.heap
            /\ l1 = s1.refs
            /\ l2 = s2.refs
            /\ newlabel = nl
            /\ pc = "ready"
            /\ op = "none"
            /\ mapping = EmptyDict
            /\ result = <<>>
            /\ i = 0
            /\ ret = <<>>
            /\ NoGraph

Args == <<l1, l2, newlabel, graph, nodes, edges, labels, edgeArg>>

\* invert(l1)
CallInvert ==
    /\ pc = "ready"
    /\ LET r == Invert(heap, l1)
       IN  heap' = r.heap /\ ret' = r.ret
    /\ pc' = "done"
    /\ op' = "invert"
    /\ UNCHANGED <<Args, mapping, result, i>>

\* invert(invert(l1)): invert applied to the list invert returned
CallInvertAgain ==
    /\ pc = "done" /\ op = "invert"
    /\ LET r == Invert(heap, ret)
       IN  heap' = r.heap /\ ret' = r.ret
    /\ op' = "invert_invert"
    /\ UNCHANGED <<Args, pc, mapping, result, i>>

\* find_paths(l1, l2)
CallFindPaths ==
    /\ pc = "ready"
    /\ ret' = FindPaths(heap, l1, l2)
    /\ pc' = "done"
    /\ op' = "find_paths"
    /\ UNCHANGED <<Args, heap, mapping, result, i>>

\* compose(l1, l2, newlabel), entered: the mapping is built and result is empty
ComposeBegin ==
    /\ pc = "ready"
    /\ mapping' = Mapping(heap, l2, Len(l2))
    /\ result' = <<>>
    /\ i' = 1
    /\ pc' = "compose"
    /\ op' = "compose"
    /\ UNCHANGED <<Args, heap, ret>>

\* one iteration of `for edge in l1`
ComposeStep ==
    /\ pc = "compose" /\ i <= Len(l1)
    /\ LET st == ComposeEdge([heap |-> heap, result |-> result], mapping,
                             heap[l1[i]], newlabel)
       IN  heap' = st.heap /\ result' = st.result
    /\ i' = i + 1
    /\ UNCHANGED <<Args, pc, op, mapping, ret>>

\* return list(result.values())
ComposeReturn ==
    /\ pc = "compose" /\ i > Len(l1)
    /\ ret' = Values(result)
    /\ pc' = "done"
    /\ UNCHANGED <<Args, heap, op, mapping, result, i>>

\* lift(l1, l2, newlabel)
CallLift ==
    /\ pc = "ready"
    /\ LET r == Lift(heap, l1, l2, newlabel)
       IN  heap' = r.heap /\ ret' = r.ret
    /\ pc' = "done"
    /\ op' = "lift"
    /\ UNCHANGED <<Args, mapping, result, i>>

Next ==
    \/ CallInvert
    \/ CallInvertAgain
    \/ CallFindPaths
    \/ ComposeBegin
    \/ ComposeStep
    \/ ComposeReturn
    \/ CallLift

Spec == Init /\ [][Next]_vars
(***************************************************************************)
(* The calls on a graph document: transform_graph, then the label          *)
(* utilities on the maps it returned.                                      *)
(***************************************************************************)
NodePool ==
    { [e |-> [id |-> 1, labels |-> <<"A">>],      p |-> <<>>],
      [e |-> [id |-> 2, labels |-> <<"A", "B">>], p |-> <<>>],
      [e |-> [id |-> 3],                          p |-> <<>>] }

GraphEdgePool ==
    { [e |-> [source |-> 1, target |-> 2, label |-> "x", labels |-> <<"y">>], p |-> <<>>],
      [e |-> [source |-> 1, target |-> 1, labels |-> <<"x", "y">>],         p |-> <<>>],
      [e |-> [source |-> 2, target |-> 2, labels |-> <<"x">>],              p |-> <<>>],
      [e |-> [source |-> 3, target |-> 1, label |-> "x,y"],                 p |-> <<>>],
      [e |-> [source |-> 1, target |-> 3, labels |-> <<>>],                 p |-> <<>>],
      [e |-> [source |-> 2, target |-> 3],                                  p |-> <<>>] }

LabelLists == { <<>>, <<"A">>, <<"B", "C">> }

LabelArgs == { "A", "B" }

InitGraph ==
    \E ns \in BoundedSeq(NodePool, MaxNodes), es \in BoundedSeq(GraphEdgePool, MaxEdges) :
        LET s1 == Load([heap |-> <<>>, refs |-> <<>>], ns)
            s2 == Load([heap |-> s1.heap, refs |-> <<>>], es)
        IN  /\ heap = s2.heap
            /\ graph = [nodes |-> s1.refs, edges |-> s2.refs]
            /\ nodes = <<>>
            /\ edges = <<>>
            /\ labels = <<>>
            /\ edgeArg = 0
            /\ l1 = <<>>
            /\ l2 = <<>>
            /\ newlabel = <<>>
            /\ pc = "ready"
            /\ op = "none"
            /\ mapping = EmptyDict
            /\ result = <<>>
            /\ i = 0
            /\ ret = <<>>

Locals == <<l2, newlabel, mapping, result, i>>

\* nodes, edges = transform_graph(graph)
CallTransformGraph ==
    /\ pc = "ready"
    /\ LET r == TransformGraph(heap, graph)
       IN  /\ heap' = r.heap
           /\ IF r.status = "ok"
              THEN /\ nodes' = r.nodes
                   /\ edges' = r.edges
                   /\ ret' = [status |-> "ok"]
                   /\ pc' = "transformed"
              ELSE /\ ret' = [status |-> r.status]
                   /\ pc' = "done"
                   /\ UNCHANGED <<nodes, edges>>
    /\ op' = "transform_graph"
    /\ UNCHANGED <<Locals, graph, labels, edgeArg, l1>>

\* get_edge_node_labels(edge, nodes), for an edge of the graph
CallGetEdgeNodeLabels ==
    /\ pc = "transformed"
    /\ \E j \in 1..Len(graph.edges) :
          /\ edgeArg' = graph.edges[j]
          /\ ret' = GetEdgeNodeLabels(heap, graph.edges[j], nodes)
    /\ pc' = "done"
    /\ op' = "get_edge_node_labels"
    /\ UNCHANGED <<Locals, heap, graph, nodes, edges, labels, l1>>

\* get_edges_with_labels(nodes, edge_list, label), for the edge list of a
\* label of the edges map, or the list of all the edges
CallGetEdgesWithLabels ==
    /\ pc = "transformed"
    /\ \E edge_list \in { edges[g].val : g \in 1..Len(edges) } \cup { graph.edges },
          label \in LabelArgs :
          /\ l1' = edge_list
          /\ labels' = <<label>>
          /\ ret' = GetEdgesWithLabels(heap, nodes, edge_list, label, Len(edge_list))
    /\ pc' = "done"
    /\ op' = "get_edges_with_labels"
    /\ UNCHANGED <<Locals, heap, graph, nodes, edges, edgeArg>>

\* filter_objects_by_labels(nodes, labels)
CallFilterObjectsByLabels ==
    /\ pc = "transformed"
    /\ \E lbls \in LabelLists :
          /\ labels' = lbls
          /\ ret' = FilterObjectsByLabels(heap, nodes, lbls, Len(nodes))
    /\ pc' = "done"
    /\ op' = "filter_objects_by_labels"
    /\ UNCHANGED <<Locals, heap, graph, nodes, edges, edgeArg, l1>>

NextGraph ==
    \/ CallTransformGraph
    \/ CallGetEdgeNodeLabels
    \/ CallGetEdgesWithLabels
    \/ CallFilterObjectsByLabels

SpecGraph == InitGraph /\ [][NextGraph]_vars

(***************************************************************************)
(* elements_preparation (project_util.py).  None is <<>>, a description    *)
(* string d is <<d>>.                                                      *)
(***************************************************************************)
\* t < u, for two tuples of ids of the same length
RECURSIVE TupleLess(_, _)
TupleLess(t, u) ==
    IF t = <<>> THEN FALSE
    ELSE IF t[1] # u[1] THEN t[1] < u[1]
    ELSE TupleLess(Tail(t), Tail(u))

\* sorted(S), for a set of tuples of ids
RECURSIVE SortedTuples(_)
SortedTuples(S) ==
    IF S = {} THEN <<>>
    ELSE LET m == CHOOSE x \in S : \A y \in S \ {x} : TupleLess(x, y)
         IN  <<m>> \o SortedTuples(S \ {m})

\* sorted(S), for a set of ids
RECURSIVE SortedIds(_)
SortedIds(S) ==
    IF S = {} THEN <<>>
    ELSE LET m == CHOOSE x \in S : \A y \in S : x <= y
         IN  <<m>> \o SortedIds(S \ {m})

\* if nodes[id]['properties'].get('description') is None:
\*     nodes[id]['properties']['description'] = None
\* st is the heap and the status ("KeyError" once a lookup failed).
Describe(st, nodeMap, id) ==
    IF st.status # "ok" THEN st
    ELSE IF ~HasKey(nodeMap, id) THEN [st EXCEPT !.status = "KeyError"]
    ELSE IF "properties" \notin DOMAIN st.heap[Lookup(nodeMap, id)]
    THEN [st EXCEPT !.status = "KeyError"]
    ELSE LET p == st.heap[Lookup(nodeMap, id)]["properties"]
         IN  IF Get(st.heap[p], "description", <<>>) = <<>>
             THEN [st EXCEPT !.heap[p] = Put(@, "description", <<>>)]
             ELSE st

\* the three loops over methods, classes and packages, as one loop over the
\* first n of their ids
RECURSIVE DescribeAll(_, _, _, _)
DescribeAll(h, nodeMap, ids, n) ==
    IF n = 0 THEN [heap |-> h, status |-> "ok"]
    ELSE Describe(DescribeAll(h, nodeMap, ids, n - 1), nodeMap, ids[n])

\* ... for _,c,met_id in methods if c == cls_id
MethodOfClass(t, cls_id) == t[2] = cls_id

\* The filter dropped: every class is taken.
ClassOfAnyPackage(c, pkg_id) == TRUE

\* ... for p,cls_id in classes if p == pkg_id
ClassOfPackage(c, pkg_id) == c[1] = pkg_id

\* [met_id for _,c,met_id in methods if c == cls_id], over the first n
RECURSIVE MethodIds(_, _, _)
MethodIds(methods, cls_id, n) ==
    IF n = 0 THEN <<>>
    ELSE IF MethodOfClass(methods[n], cls_id)
    THEN Append(MethodIds(methods, cls_id, n - 1), methods[n][3])
    ELSE MethodIds(methods, cls_id, n - 1)

\* { cls_id: [...] for p,cls_id in classes if p == pkg_id }, over the first n
RECURSIVE ClassDict(_, _, _, _)
ClassDict(classes, methods, pkg_id, n) ==
    IF n = 0 THEN <<>>
    ELSE IF ClassOfPackage(classes[n], pkg_id)
    THEN OPut(ClassDict(classes, methods, pkg_id, n - 1), classes[n][2],
              MethodIds(methods, classes[n][2], Len(methods)))
    ELSE ClassDict(classes, methods, pkg_id, n - 1)

\* hierarchy = { pkg_id: {...} for pkg_id in packages }, over the first n
RECURSIVE Hierarchy(_, _, _, _)
Hierarchy(packages, classes, methods, n) ==
    IF n = 0 THEN <<>>
    ELSE OPut(Hierarchy(packages, classes, methods, n - 1), packages[n],
              ClassDict(classes, methods, packages[n], Len(classes)))

\* elements_preparation(nodes, edges)
ElementsPreparation(h, nodeMap, edgeMap) ==
    IF ~HasKey(edgeMap, "contains") \/ ~HasKey(edgeMap, "hasScript")
    THEN [heap |-> h, status |-> "KeyError", value |-> <<>>]
    ELSE LET methods  == SortedTuples(DOMAIN FindPaths(h, Lookup(edgeMap, "contains"),
                                                       Lookup(edgeMap, "hasScript")))
             classes  == SortedTuples({ <<methods[j][1], methods[j][2]>> :
                                          j \in 1..Len(methods) })
             packages == SortedIds({ classes[j][1] : j \in 1..Len(classes) })
             ids      == [j \in 1..Len(methods) |-> methods[j][3]]
                           \o [j \in 1..Len(classes) |-> classes[j][2]]
                           \o packages
             d        == DescribeAll(h, nodeMap, ids, Len(ids))
         IN  [heap   |-> d.heap,
              status |-> d.status,
              value  |-> IF d.status = "ok"
                         THEN Hierarchy(packages, classes, methods, Len(packages))
                         ELSE <<>>]

(***************************************************************************)
(* The call of elements_preparation, on a node map and on 'contains' and   *)
(* 'hasScript' edge lists drawn from small pools: packages 1 and 2,        *)
(* classes 3 and 4, methods 5 and 6.                                       *)
(***************************************************************************)
ContainsPool ==
    { [e |-> [source |-> 1, target |-> 3, label |-> "contains"], p |-> <<>>],
      [e |-> [source |-> 2, target |-> 3, label |-> "contains"], p |-> <<>>],
      [e |-> [source |-> 1, target |-> 4, label |-> "contains"], p |-> <<>>],
      [e |-> [source |-> 2, target |-> 4, label |-> "contains"], p |-> <<>>] }

HasScriptPool ==
    { [e |-> [source |-> 3, target |-> 5, label |-> "hasScript"], p |-> <<>>],
      [e |-> [source |-> 3, target |-> 6, label |-> "hasScript"], p |-> <<>>],
      [e |-> [source |-> 4, target |-> 5, label |-> "hasScript"], p |-> <<>>],
      [e |-> [source |-> 2, target |-> 6, label |-> "hasScript"], p |-> <<>>] }

\* The node lists: every node with properties (one description set, one
\* None); method 6 absent; class 3 without properties.
NodeWorlds ==
    { << [e |-> [id |-> 1], p |-> <<EmptyDict>>],
         [e |-> [id |-> 2], p |-> <<[description |-> <<"d">>]>>],
         [e |-> [id |-> 3], p |-> <<EmptyDict>>],
         [e |-> [id |-> 4], p |-> <<[description |-> <<>>]>>],
         [e |-> [id |-> 5], p |-> <<EmptyDict>>],
         [e |-> [id |-> 6], p |-> <<EmptyDict>>] >>,
      << [e |-> [id |-> 1], p |-> <<EmptyDict>>],
         [e |-> [id |-> 2], p |-> <<EmptyDict>>],
         [e |-> [id |-> 3], p |-> <<EmptyDict>>],
         [e |-> [id |-> 4], p |-> <<EmptyDict>>],
         [e |-> [id |-> 5], p |-> <<EmptyDict>>] >>,
      << [e |-> [id |-> 1], p |-> <<EmptyDict>>],
         [e |-> [id |-> 2], p |-> <<EmptyDict>>],
         [e |-> [id |-> 3], p |-> <<>>],
         [e |-> [id |-> 4], p |-> <<EmptyDict>>],
         [e |-> [id |-> 5], p |-> <<EmptyDict>>],
         [e |-> [id |-> 6], p |-> <<EmptyDict>>] >> }

InitPrep ==
    \E ns \in NodeWorlds, cs \in BoundedSeq(ContainsPool, MaxLen1),
       hs \in BoundedSeq(HasScriptPool, MaxLen2) :
        LET s1 == Load([heap |-> <<>>, refs |-> <<>>], ns)
            s2 == Load([heap |-> s1.heap, refs |-> <<>>], cs)
            s3 == Load([heap |-> s2.heap, refs |-> <<>>], hs)
        IN  /\ heap = s3.heap
            /\ nodes = NodeMap(s3.heap, s1.refs, Len(s1.refs))
            /\ edges = << [key |-> "contains", val |-> s2.refs],
                          [key |-> "hasScript", val |-> s3.refs] >>
            /\ graph = [nodes |-> <<>>, edges |-> <<>>]
            /\ labels = <<>>
            /\ edgeArg = 0
            /\ l1 = <<>>
            /\ l2 = <<>>
            /\ newlabel = <<>>
            /\ pc = "ready"
            /\ op = "none"
            /\ mapping = EmptyDict
            /\ result = <<>>
            /\ i = 0
            /\ ret = <<>>

\* hierarchy, nodes = elements_preparation(nodes, edges)
CallElementsPreparation ==
    /\ pc = "ready"
    /\ LET r == ElementsPreparation(heap, nodes, edges)
       IN  /\ heap' = r.heap
           /\ ret' = [status |-> r.status, value |-> r.value]
    /\ pc' = "done"
    /\ op' = "elements_preparation"
    /\ UNCHANGED <<Locals, graph, nodes, edges, labels, edgeArg, l1>>

NextPrep == CallElementsPreparation

SpecPrep == InitPrep /\ [][NextPrep]_vars

(***************************************************************************)
(* Reading the heap: the edge at a reference, and the hop weight the       *)
(* claims speak of (a missing properties.weight counts as 1).              *)
(***************************************************************************)
Edge(r) == heap[r]

HopWeight(r) ==
    IF "properties" \in DOMAIN heap[r] /\ "weight" \in DOMAIN heap[heap[r]["properties"]]
    THEN heap[heap[r]["properties"]]["weight"]
    ELSE 1

RECURSIVE Sum(_)
Sum(f) ==
    IF DOMAIN f = {} THEN 0
    ELSE LET x == CHOOSE y \in DOMAIN f : TRUE
         IN  f[x] + Sum([y \in DOMAIN f \ {x} |-> f[y]])

\* The pairs (a, b) of positions in l1 and l2 that join into (s, t).
HopPairs(s, t) ==
    { pr \in (1..Len(l1)) \X (1..Len(l2)) :
        /\ Edge(l1[pr[1]])["target"] = Edge(l2[pr[2]])["source"]
        /\ Edge(l1[pr[1]])["source"] = s
        /\ Edge(l2[pr[2]])["target"] = t }

\* b is the last position of l2 holding its source id.
IsLast(b) ==
    \A c \in 1..Len(l2) : Edge(l2[c])["source"] = Edge(l2[b])["source"] => c <= b

LastHopPairs(s, t) == { pr \in HopPairs(s, t) : IsLast(pr[2]) }

PairWeights(prs) == [pr \in prs |-> HopWeight(l1[pr[1]]) * HopWeight(l2[pr[2]])]

Composed == pc = "done" /\ op = "compose"

\* C1 as stated: every edge of compose(l1, l2) weighs the sum, over ALL the
\* hop-pairs (e1 in l1, e2 in l2, e1.target = e2.source) that produce its
\* (source, target), of e1's weight times e2's weight.
C1_WeightOverAllPairs ==
    Composed =>
        \A j \in 1..Len(ret) :
            HopWeight(ret[j]) =
                Sum(PairWeights(HopPairs(Edge(ret[j])["source"], Edge(ret[j])["target"])))

\* C1 amended: every edge of compose(l1, l2) weighs the sum of e1's weight
\* times e2's weight over the hop-pairs producing its (source, target) in
\* which e2 is the last edge of l2 with its source id.
C1_WeightOverLastPairs ==
    Composed =>
        \A j \in 1..Len(ret) :
            HopWeight(ret[j]) =
                Sum(PairWeights(LastHopPairs(Edge(ret[j])["source"], Edge(ret[j])["target"])))

\* C1 witness: compose returned an edge that sums two hop-pairs, with l2
\* holding two edges of the same source.
C1_Witness ==
    /\ Composed
    /\ \E j \in 1..Len(ret) :
           Cardinality(LastHopPairs(Edge(ret[j])["source"], Edge(ret[j])["target"])) >= 2
    /\ \E b \in 1..Len(l2) : ~IsLast(b)
(***************************************************************************)
(* compose, said without the lookup: the l2 edge an l1 edge joins with.    *)
(***************************************************************************)
Src(r) == heap[r]["source"]
Tgt(r) == heap[r]["target"]
LabelOr(r, default) == IF "label" \in DOMAIN heap[r] THEN heap[r]["label"] ELSE default

\* some l2 edge has source id t
HasSource(t) == \E b \in 1..Len(l2) : Src(l2[b]) = t

\* the last position of l2 whose edge has source id t
LastOf(t) == CHOOSE b \in 1..Len(l2) : Src(l2[b]) = t /\ IsLast(b)

\* the positions of l1, among the first n, whose edge joins with an l2 edge
Matched(n) == { a \in 1..n : a <= Len(l1) /\ HasSource(Tgt(l1[a])) }

\* the (source, target) pair the l1 edge at a matched position a produces
PairOf(a) == <<Src(l1[a]), Tgt(l2[LastOf(Tgt(l1[a]))])>>

\* the (source, target) pair of the edge at reference r
EndsOf(r) == <<Src(r), Tgt(r)>>

\* C2: the lookup holds, for each source id of l2, the target, label and
\* weight of the LAST l2 edge with that source; every l1 edge whose target
\* is such a source id is composed with that last edge (its target, label
\* and weight), and the earlier l2 edges of that source yield no output
\* edge and no weight.
C2_LastEdgeOfSourceWins ==
    /\ op = "compose" =>
          /\ DOMAIN mapping = { Src(l2[b]) : b \in 1..Len(l2) }
          /\ \A b \in 1..Len(l2) :
                IsLast(b) =>
                    mapping[Src(l2[b])] = [target |-> Tgt(l2[b]),
                                           label  |-> LabelOr(l2[b], "edge1"),
                                           weight |-> HopWeight(l2[b])]
    /\ Composed =>
          /\ { EndsOf(ret[j]) : j \in 1..Len(ret) }
                = { PairOf(a) : a \in Matched(Len(l1)) }
          /\ \A j \in 1..Len(ret) :
                LET from == { a \in Matched(Len(l1)) : PairOf(a) = EndsOf(ret[j]) }
                    a0   == CHOOSE a \in from : \A c \in from : a <= c
                IN  /\ HopWeight(ret[j]) =
                          Sum([a \in from |->
                                 HopWeight(l1[a]) * HopWeight(l2[LastOf(Tgt(l1[a]))])])
                    /\ ~Truthy(newlabel) =>
                          heap[ret[j]]["label"] =
                              LabelOr(l1[a0], "edge2") \o "-"
                                \o LabelOr(l2[LastOf(Tgt(l1[a0]))], "edge1")

\* C2 witness: compose returned an edge made through a source id that two
\* l2 edges with different targets, labels and weights share.
C2_Witness ==
    /\ Composed
    /\ \E a \in 1..Len(l1), b, c \in 1..Len(l2) :
          /\ b < c /\ IsLast(c)
          /\ Src(l2[b]) = Src(l2[c]) /\ Src(l2[c]) = Tgt(l1[a])
          /\ Tgt(l2[b]) # Tgt(l2[c])
          /\ HopWeight(l2[b]) # HopWeight(l2[c])
          /\ LabelOr(l2[b], "edge1") # LabelOr(l2[c], "edge1")
          /\ \E j \in 1..Len(ret) : EndsOf(ret[j]) = PairOf(a)

(***************************************************************************)
(* C3: the result dict after every prefix of l1.                           *)
(***************************************************************************)
\* the first position, among the first n of l1, that produces the pair pr
FirstOf(pr, n) ==
    CHOOSE a \in Matched(n) : PairOf(a) = pr /\ \A c \in Matched(n) : PairOf(c) = pr => a <= c

\* The parts of C3 that do not depend on how newlabel is read: after the
\* first n edges of l1, the edges held in res (a sequence of references) have
\* distinct (source, target) pairs, are exactly the pairs produced so far,
\* and stand in the order of the first l1 position producing each.
PrefixShape(res, n) ==
    /\ \A j, k \in 1..Len(res) : j # k => EndsOf(res[j]) # EndsOf(res[k])
    /\ { EndsOf(res[j]) : j \in 1..Len(res) } = { PairOf(a) : a \in Matched(n) }
    /\ \A j, k \in 1..Len(res) :
          j < k => FirstOf(EndsOf(res[j]), n) < FirstOf(EndsOf(res[k]), n)
    /\ \A j \in 1..Len(res) :
          HopWeight(res[j]) =
              Sum([a \in { c \in Matched(n) : PairOf(c) = EndsOf(res[j]) } |->
                     HopWeight(l1[a]) * HopWeight(l2[LastOf(Tgt(l1[a]))])])

\* the label computed from the first l1 edge that produced the edge at r
FirstLabel(r, n) ==
    LET a == FirstOf(EndsOf(r), n)
    IN  LabelOr(l1[a], "edge2") \o "-" \o LabelOr(l2[LastOf(Tgt(l1[a]))], "edge1")

\* C3 as stated: after any prefix of l1, and in the returned list, no two
\* result edges share a (source, target) pair, the edges stand in the order
\* of the first l1 edge producing each pair, and each label is the one
\* computed from that first l1 edge: newlabel if provided (not None), else
\* l1-label-l2-label; later l1 edges of the same pair only add weight.
C3_PrefixProvided ==
    /\ op = "compose" =>
          /\ PrefixShape(Values(result), i - 1)
          /\ \A j \in 1..Len(result) :
                heap[result[j].val]["label"] =
                    IF newlabel # <<>> THEN newlabel[1]
                    ELSE FirstLabel(result[j].val, i - 1)
    /\ Composed =>
          /\ PrefixShape(ret, Len(l1))
          /\ \A j \in 1..Len(ret) :
                heap[ret[j]]["label"] =
                    IF newlabel # <<>> THEN newlabel[1] ELSE FirstLabel(ret[j], Len(l1))

\* C3 amended: the same, with the label being newlabel if provided and not
\* the empty string, else l1-label-l2-label of the first l1 edge.
C3_PrefixNonEmpty ==
    /\ op = "compose" =>
          /\ PrefixShape(Values(result), i - 1)
          /\ \A j \in 1..Len(result) :
                heap[result[j].val]["label"] =
                    IF newlabel # <<>> /\ newlabel[1] # "" THEN newlabel[1]
                    ELSE FirstLabel(result[j].val, i - 1)
    /\ Composed =>
          /\ PrefixShape(ret, Len(l1))
          /\ \A j \in 1..Len(ret) :
                heap[ret[j]]["label"] =
                    IF newlabel # <<>> /\ newlabel[1] # "" THEN newlabel[1]
                    ELSE FirstLabel(ret[j], Len(l1))

\* C3 witness: compose is past three l1 edges; the first and the third
\* produce the same pair with different labels, the second another pair.
C3_Witness ==
    /\ op = "compose" /\ pc = "compose" /\ i = 4
    /\ Matched(3) = {1, 2, 3}
    /\ PairOf(1) = PairOf(3) /\ PairOf(1) # PairOf(2)
    /\ LabelOr(l1[1], "edge2") # LabelOr(l1[3], "edge2")
    /\ Len(result) = 2
(***************************************************************************)
(* C4: invert twice.                                                       *)
(***************************************************************************)
\* C4: invert(invert(l1)) has, at every position, the source and target of
\* the l1 edge there, and the label "inv_inv_" + its label ("edge" when it
\* has none).
C4_InvertInvert ==
    (pc = "done" /\ op = "invert_invert") =>
        /\ Len(ret) = Len(l1)
        /\ \A j \in 1..Len(l1) :
              /\ Src(ret[j]) = Src(l1[j])
              /\ Tgt(ret[j]) = Tgt(l1[j])
              /\ heap[ret[j]]["label"] = "inv_inv_" \o LabelOr(l1[j], "edge")

\* C4 witness: invert was applied twice to a list holding an edge without a
\* label and a labelled edge whose source and target differ.
C4_Witness ==
    /\ pc = "done" /\ op = "invert_invert"
    /\ \E j, k \in 1..Len(l1) :
          /\ "label" \notin DOMAIN heap[l1[j]]
          /\ "label" \in DOMAIN heap[l1[k]]
          /\ Src(l1[k]) # Tgt(l1[k])
          /\ heap[ret[k]]["label"] # heap[l1[k]]["label"]

(***************************************************************************)
(* C5: the calls leave their input lists and input edges as they were.     *)
(***************************************************************************)
\* the objects reachable from a list of edges: the edges and their
\* properties dicts
RefsOf(h, edgeList) ==
    { edgeList[j] : j \in 1..Len(edgeList) }
      \cup { h[edgeList[j]]["properties"] :
               j \in { k \in 1..Len(edgeList) : "properties" \in DOMAIN h[edgeList[k]] } }

InputRefs == RefsOf(heap, l1) \cup RefsOf(heap, l2)

\* what invert(l1) returned: a list of new dicts, one per l1 edge in l1's
\* order, each with the l1 edge's value under every other key
InvertReturned ==
    /\ Len(ret) = Len(l1)
    /\ \A j, k \in 1..Len(ret) : j # k => ret[j] # ret[k]
    /\ \A j \in 1..Len(ret) :
          /\ ret[j] \notin { l1[a] : a \in 1..Len(l1) }
          /\ DOMAIN heap[ret[j]] = DOMAIN heap[l1[j]] \cup {"source", "target", "label"}
          /\ \A k \in DOMAIN heap[l1[j]] \ {"source", "target", "label"} :
                heap[ret[j]][k] = heap[l1[j]][k]

\* C5: every step of invert, find_paths, compose and lift leaves the input
\* lists and every input edge (source, target, label, properties) as they
\* were, and invert returns a new list of the input's length and order in
\* which every key other than source, target and label has the input
\* edge's value.
C5_InputsUnchanged ==
    [][ /\ l1' = l1
        /\ l2' = l2
        /\ \A r \in InputRefs : heap'[r] = heap[r]
        /\ (op = "none" /\ op' = "invert") => InvertReturned' ]_vars

\* C5 witness: compose returned after creating an edge from an l1 edge
\* that has a properties dict and after adding weight to an edge of the
\* result.
C5_Witness ==
    /\ Composed
    /\ \E a \in Matched(Len(l1)) : "properties" \in DOMAIN heap[l1[a]]
                                     /\ HopWeight(l2[LastOf(Tgt(l1[a]))]) # 1
    /\ \E a, c \in Matched(Len(l1)) : a # c /\ PairOf(a) = PairOf(c)

(***************************************************************************)
(* C6: find_paths.                                                         *)
(***************************************************************************)
\* the last position of l1 whose edge has target id t
LastTo(t) ==
    CHOOSE a \in 1..Len(l1) :
        Tgt(l1[a]) = t /\ \A c \in 1..Len(l1) : Tgt(l1[c]) = t => c <= a

HasTarget(t) == \E a \in 1..Len(l1) : Tgt(l1[a]) = t

\* C6: find_paths(l1, l2) holds exactly the tuples (m(e.source), e.source,
\* e.target) of the l2 edges e whose source is the target of an l1 edge, m
\* giving the source of the last l1 edge with that target, each tuple once.
C6_FindPaths ==
    (pc = "done" /\ op = "find_paths") =>
        /\ DOMAIN ret =
              { <<Src(l1[LastTo(Src(l2[b]))]), Src(l2[b]), Tgt(l2[b])>> :
                  b \in { c \in 1..Len(l2) : HasTarget(Src(l2[c])) } }
        /\ \A x \in DOMAIN ret : ret[x] = 1

\* C6 witness: find_paths returned a tuple that two l2 edges produce, its
\* middle id being the target of two l1 edges with different sources.
C6_Witness ==
    /\ pc = "done" /\ op = "find_paths"
    /\ \E b, c \in 1..Len(l2), a, d \in 1..Len(l1) :
          /\ b # c /\ EndsOf(l2[b]) = EndsOf(l2[c])
          /\ a < d /\ Tgt(l1[a]) = Tgt(l1[d]) /\ Src(l1[a]) # Src(l1[d])
          /\ Tgt(l1[a]) = Src(l2[b])
          /\ <<Src(l1[d]), Src(l2[b]), Tgt(l2[b])>> \in DOMAIN ret

(***************************************************************************)
(* C7: lift.                                                               *)
(***************************************************************************)
\* an edge list by value: source, target, label and weight of each edge
ListValue(h, edgeList) ==
    [j \in 1..Len(edgeList) |->
        [source |-> h[edgeList[j]]["source"],
         target |-> h[edgeList[j]]["target"],
         label  |-> h[edgeList[j]]["label"],
         weight |-> h[h[edgeList[j]]["properties"]]["weight"]]]

\* The l1 positions a whose three-hop chain (the l1 edge, the l2 edge it
\* joins, the inverted l1 edge that one joins) runs from s to t.
Chains(s, t) ==
    { a \in Matched(Len(l1)) :
        /\ Src(l1[a]) = s
        /\ HasTarget(PairOf(a)[2])
        /\ Src(l1[LastTo(PairOf(a)[2])]) = t }

ChainWeight(a) ==
    HopWeight(l1[a]) * HopWeight(l2[LastOf(Tgt(l1[a]))])
        * HopWeight(l1[LastTo(PairOf(a)[2])])

\* C7: lift(l1, l2, newlabel) is compose(compose(l1, l2), invert(l1),
\* newlabel); each of its edges has source and target among the source ids
\* of l1, and weighs the sum, over the hop chains compose gathers into its
\* (source, target), of the product of the three hops' weights.
C7_Lift ==
    (pc = "done" /\ op = "lift") =>
        /\ LET c   == Compose(heap, l1, l2, <<>>)
               inv == Invert(c.heap, l1)
               r   == Compose(inv.heap, c.ret, inv.ret, newlabel)
           IN  ListValue(heap, ret) = ListValue(r.heap, r.ret)
        /\ \A j \in 1..Len(ret) :
              /\ Src(ret[j]) \in { Src(l1[a]) : a \in 1..Len(l1) }
              /\ Tgt(ret[j]) \in { Src(l1[a]) : a \in 1..Len(l1) }
              /\ HopWeight(ret[j]) =
                    Sum([a \in Chains(Src(ret[j]), Tgt(ret[j])) |-> ChainWeight(a)])
        /\ \A a \in Matched(Len(l1)) :
              HasTarget(PairOf(a)[2]) =>
                  \E j \in 1..Len(ret) : a \in Chains(Src(ret[j]), Tgt(ret[j]))

\* C7 witness: lift returned an edge gathering two chains, one of them with
\* three hops of weight above 1.
C7_Witness ==
    /\ pc = "done" /\ op = "lift"
    /\ \E j \in 1..Len(ret) :
          /\ Cardinality(Chains(Src(ret[j]), Tgt(ret[j]))) >= 2
          /\ \E a \in Chains(Src(ret[j]), Tgt(ret[j])) :
                /\ HopWeight(l1[a]) > 1
                /\ HopWeight(l2[LastOf(Tgt(l1[a]))]) > 1
                /\ HopWeight(l1[LastTo(PairOf(a)[2])]) > 1
(***************************************************************************)
(* C8: node ids absent from the node map.                                  *)
(***************************************************************************)
\* the source or the target of the edge at r is no key of the node map
MissingEnd(r) == ~HasKey(nodes, Src(r)) \/ ~HasKey(nodes, Tgt(r))

\* the labels of the node with the given id, which is a key of the node map
NodeLabels(id) ==
    IF "labels" \in DOMAIN heap[Lookup(nodes, id)] THEN heap[Lookup(nodes, id)]["labels"]
    ELSE <<>>

Range(xs) == { xs[j] : j \in 1..Len(xs) }

\* C8 as stated: when the source or target id of an edge is no key of the
\* node map, get_edge_node_labels(edge, nodes), and get_edges_with_labels
\* on any list holding that edge, fail with a lookup error.
C8_MissingNodeFails ==
    /\ (pc = "done" /\ op = "get_edge_node_labels" /\ MissingEnd(edgeArg))
          => ret.status = "KeyError"
    /\ (pc = "done" /\ op = "get_edges_with_labels"
           /\ \E j \in 1..Len(l1) : MissingEnd(l1[j]))
          => ret.status = "KeyError"

\* C8 amended: with a source or target id that is no key of the node map,
\* get_edge_node_labels returns the empty list and does not fail;
\* get_edges_with_labels fails with a lookup error exactly when some edge of
\* the list has a source id that is no key, or a target id that is no key
\* while the labels of its source node hold the label.
C8_MissingNodeAmended ==
    /\ (pc = "done" /\ op = "get_edge_node_labels" /\ MissingEnd(edgeArg))
          => ret = [status |-> "ok", value |-> <<>>]
    /\ (pc = "done" /\ op = "get_edges_with_labels") =>
          (ret.status = "KeyError" <=>
              \E j \in 1..Len(l1) :
                  \/ ~HasKey(nodes, Src(l1[j]))
                  \/ /\ labels[1] \in Range(NodeLabels(Src(l1[j])))
                     /\ ~HasKey(nodes, Tgt(l1[j])))

\* C8 witness: get_edges_with_labels returned normally on a list holding an
\* edge whose target id is no key of the node map.
C8_Witness ==
    /\ pc = "done" /\ op = "get_edges_with_labels"
    /\ ret.status = "ok"
    /\ \E j \in 1..Len(l1) : HasKey(nodes, Src(l1[j])) /\ ~HasKey(nodes, Tgt(l1[j]))
    /\ \E j \in 1..Len(l1) : ~MissingEnd(l1[j]) /\ In(l1[j], ret.value)

(***************************************************************************)
(* C9: transform_graph's edges map.                                        *)
(***************************************************************************)
\* the positions (group, place) of the edges map m that hold reference r
PlacesOf(m, r) ==
    { pl \in (1..Len(m)) \X (1..Len(graph.edges)) :
        pl[2] <= Len(m[pl[1]].val) /\ m[pl[1]].val[pl[2]] = r }

\* the position of reference r in the input edge list
InputPos(r) == CHOOSE j \in 1..Len(graph.edges) : graph.edges[j] = r

\* C9: a transform_graph call that returns puts every input edge in exactly
\* one group of the edges map, keyed by the edge's label, in input order
\* inside each group; an edge without label gets its labels joined with
\* commas written into it as label, an edge with a label is left as it was;
\* so every edge of group k has label k.
C9_TransformGroups ==
    [][ (op = "none" /\ op' = "transform_graph" /\ pc' = "transformed") =>
          /\ \A g, k \in 1..Len(edges') : g # k => edges'[g].key # edges'[k].key
          /\ \A g \in 1..Len(edges') :
                /\ edges'[g].val # <<>>
                /\ \A k \in 1..Len(edges'[g].val) :
                      /\ edges'[g].val[k] \in Range(graph.edges)
                      /\ heap'[edges'[g].val[k]]["label"] = edges'[g].key
                /\ \A k, m \in 1..Len(edges'[g].val) :
                      k < m => InputPos(edges'[g].val[k]) < InputPos(edges'[g].val[m])
          /\ \A j \in 1..Len(graph.edges) :
                LET r == graph.edges[j]
                IN  /\ Cardinality(PlacesOf(edges', r)) = 1
                    /\ IF "label" \in DOMAIN heap[r]
                       THEN /\ heap'[r] = heap[r]
                            /\ \E pl \in PlacesOf(edges', r) :
                                  edges'[pl[1]].key = heap[r]["label"]
                       ELSE /\ heap'[r] = Put(heap[r], "label", Join(heap[r]["labels"]))
                            /\ \E pl \in PlacesOf(edges', r) :
                                  edges'[pl[1]].key = Join(heap[r]["labels"]) ]_vars

\* C9 witness: transform_graph returned a group "x,y" holding an edge whose
\* label was joined from two labels and an edge that came with that label.
C9_Witness ==
    /\ pc = "transformed" /\ op = "transform_graph"
    /\ \E g \in 1..Len(edges) :
          /\ edges[g].key = "x,y"
          /\ \E k, m \in 1..Len(edges[g].val) :
                /\ "labels" \in DOMAIN heap[edges[g].val[k]]
                /\ Len(heap[edges[g].val[k]]["labels"]) = 2
                /\ "labels" \notin DOMAIN heap[edges[g].val[m]]

(***************************************************************************)
(* C10: filter_objects_by_labels on the node map.                          *)
(***************************************************************************)
\* the entries of data whose labels sequence shares an element with labels
Sharing ==
    { nodes[j] : j \in { k \in 1..Len(nodes) :
                            /\ "labels" \in DOMAIN heap[nodes[k].val]
                            /\ Range(heap[nodes[k].val]["labels"]) \cap Range(labels) # {} } }

Filtered == pc = "done" /\ op = "filter_objects_by_labels"

\* C10 as stated: filter_objects_by_labels(data, labels) returns exactly the
\* entries of data (same key, same object) whose labels share an element
\* with labels; for an empty labels list it returns an empty mapping for
\* any input data.
C10_FilterAnyData ==
    Filtered =>
        /\ ret.status = "ok"
        /\ Range(ret.value) = Sharing
        /\ Len(ret.value) = Cardinality(Sharing)
        /\ labels = <<>> => ret.value = <<>>

\* C10 amended: when every entry of data has a labels key, the call returns
\* exactly the entries whose labels share an element with labels, and so an
\* empty mapping for an empty labels list; when an entry has no labels key
\* the call fails with a lookup error, also for an empty labels list.
C10_FilterLabelledData ==
    Filtered =>
        IF \A j \in 1..Len(nodes) : "labels" \in DOMAIN heap[nodes[j].val]
        THEN /\ ret.status = "ok"
             /\ Range(ret.value) = Sharing
             /\ Len(ret.value) = Cardinality(Sharing)
             /\ labels = <<>> => ret.value = <<>>
        ELSE ret.status = "KeyError"

\* C10 witness: the call kept one entry of the data and dropped another.
C10_Witness ==
    /\ Filtered
    /\ ret.status = "ok"
    /\ Len(ret.value) >= 1
    /\ Len(ret.value) < Len(nodes)

(***************************************************************************)
(* elements_preparation: the hierarchy read against the edge lists.        *)
(***************************************************************************)
ContainsRefs == Lookup(edges, "contains")
ScriptRefs == Lookup(edges, "hasScript")

\* the position of the last 'contains' edge with target t
LastContaining(t) ==
    CHOOSE a \in 1..Len(ContainsRefs) :
        /\ Tgt(ContainsRefs[a]) = t
        /\ \A c \in 1..Len(ContainsRefs) : Tgt(ContainsRefs[c]) = t => c <= a

IsContained(t) == \E a \in 1..Len(ContainsRefs) : Tgt(ContainsRefs[a]) = t

\* the (package, class, method) tuples of find_paths(contains, hasScript)
PathTuples ==
    { <<Src(ContainsRefs[LastContaining(Src(ScriptRefs[b]))]),
        Src(ScriptRefs[b]), Tgt(ScriptRefs[b])>> :
        b \in { c \in 1..Len(ScriptRefs) : IsContained(Src(ScriptRefs[c])) } }

\* the places <<a, b>> of the returned hierarchy: class entry b of package
\* entry a
ClassPlaces ==
    UNION { { <<a, b>> : b \in 1..Len(ret.value[a].val) } :
              a \in 1..Len(ret.value) }

\* the (package, class, method) triples the returned hierarchy lists
ListedTuples ==
    UNION { { <<ret.value[q[1]].key, ret.value[q[1]].val[q[2]].key,
                ret.value[q[1]].val[q[2]].val[m]>> :
                m \in 1..Len(ret.value[q[1]].val[q[2]].val) } :
              q \in ClassPlaces }

PrepReturned == pc = "done" /\ op = "elements_preparation" /\ ret.status = "ok"

\* C11: in the hierarchy elements_preparation returns, the package ids are
\* distinct, every class id stands at exactly one place and so under exactly
\* one package id, and the (package, class, method) triples listed are
\* exactly the tuples of find_paths(edges['contains'], edges['hasScript']).
C11_HierarchyIsPaths ==
    PrepReturned =>
        /\ \A a, b \in 1..Len(ret.value) :
              ret.value[a].key = ret.value[b].key => a = b
        /\ \A q \in ClassPlaces :
              { r \in ClassPlaces :
                  ret.value[r[1]].val[r[2]].key = ret.value[q[1]].val[q[2]].key }
                = {q}
        /\ \A t \in PathTuples :
              \E q \in ClassPlaces :
                /\ ret.value[q[1]].key = t[1]
                /\ ret.value[q[1]].val[q[2]].key = t[2]
                /\ \E m \in 1..Len(ret.value[q[1]].val[q[2]].val) :
                      ret.value[q[1]].val[q[2]].val[m] = t[3]
        /\ ListedTuples \subseteq PathTuples

\* C11 witness: a hierarchy of two packages was returned, and one of its
\* classes, listed with a method, is the target of two 'contains' edges
\* with different sources.
C11_Witness ==
    /\ PrepReturned
    /\ Len(ret.value) = 2
    /\ \E q \in ClassPlaces :
          /\ Len(ret.value[q[1]].val[q[2]].val) > 0
          /\ \E a, b \in 1..Len(ContainsRefs) :
                /\ Tgt(ContainsRefs[a]) = ret.value[q[1]].val[q[2]].key
                /\ Tgt(ContainsRefs[b]) = ret.value[q[1]].val[q[2]].key
                /\ Src(ContainsRefs[a]) # Src(ContainsRefs[b])

====
